---- MODULE Spec2Model ----
(***************************************************************************)
(* Transaction categorization of the finance app: the rule engine          *)
(* (backend/categorizer.py), the categories table it reads                 *)
(* (backend/api/categories.py) and the trained model singleton             *)
(* (backend/ml_categorizer.py).                                            *)
(*                                                                         *)
(* Texts are sequences of one-character strings.  A Python None or empty  *)
(* string is the empty sequence (the code only ever tests `if text`), a    *)
(* None or missing id is 0 (ids are SQLite rowids, at least 1, and the     *)
(* code only ever tests `if category_id`).                                 *)
(***************************************************************************)
EXTENDS Integers, Sequences, FiniteSets, TLC

\* ------------------------------------------------------------------ bounds
MaxRules == 2
MaxCats == 2
MaxTrains == 2

\* ------------------------------------------------------- program constants
MinTrainingSamples == 10
MinSamplesPerCategory == 2
DefaultThreshold == 15

None == 0

\* --------------------------------------------------------------- text tools
SetMin(S) == CHOOSE x \in S : \A y \in S : x <= y
SetMax(S) == CHOOSE x \in S : \A y \in S : x >= y

\* str.lower() on the alphabet of the model
LowerChar(c) ==
    CASE c = "A" -> "a" [] c = "B" -> "b" [] c = "E" -> "e" [] c = "W" -> "w"
      [] OTHER -> c
lower(s) == [i \in 1..Len(s) |-> LowerChar(s[i])]

\* str.strip(): drop leading and trailing whitespace
strip(s) ==
    LET keep == {i \in 1..Len(s) : s[i] # " "}
    IN  IF keep = {} THEN <<>> ELSE SubSeq(s, SetMin(keep), SetMax(keep))

\* Python `p in t` on strings: p occurs as a contiguous substring of t
Contains(p, t) ==
    \E i \in 0..(Len(t) - Len(p)) : SubSeq(t, i + 1, i + Len(p)) = p

\* re.compile raises re.error: of the metacharacters of the model's
\* alphabet only "(" can be malformed, and with no ")" it always is
re_error(p) == \E i \in 1..Len(p) : p[i] = "("

\* re.search(p, t, re.IGNORECASE) for patterns of literals and "."
re_search(p, t) ==
    \E i \in 0..(Len(t) - Len(p)) :
        \A j \in 1..Len(p) :
            \/ p[j] = "."
            \/ LowerChar(p[j]) = LowerChar(t[i + j])

\* ------------------------------------------------------------- rule engine
\* the loop body of rule_based_categorize: does `rule` match `text`
RuleMatches(rule, text) ==
    LET pattern == lower(rule.pattern)
    IN  CASE rule.match_type = "exact"    -> pattern = text
          [] rule.match_type = "contains" -> Contains(pattern, text)
          [] rule.match_type = "regex"    ->
                IF re_error(pattern) THEN FALSE ELSE re_search(pattern, text)
          [] OTHER -> FALSE

\* ORDER BY priority DESC: r1 is delivered before r2.  SQLite's sorter is
\* stable, rows of equal priority come in rowid order.
NewestFirst(r1, r2) == r1.id > r2.id

\* rows of equal sort key leave the sorter in the order of the table scan,
\* which is rowid order
ScanOrder(r1, r2) == r1.id < r2.id

RuleBeforeAsc(r1, r2) ==
    \/ r1.priority < r2.priority
    \/ r1.priority = r2.priority /\ r1.id < r2.id

RuleBefore(r1, r2) ==
    \/ r1.priority > r2.priority
    \/ r1.priority = r2.priority /\ ScanOrder(r1, r2)

\* CategorizationRule.query.order_by(priority.desc()).all()
RECURSIVE OrderedRules(_)
OrderedRules(rs) ==
    IF rs = {} THEN <<>>
    ELSE LET first == CHOOSE r \in rs : \A o \in rs \ {r} : RuleBefore(r, o)
         IN  <<first>> \o OrderedRules(rs \ {first})

\* re.search raises re.error for this rule
ReRaises(rule) == rule.match_type = "regex" /\ re_error(lower(rule.pattern))

\* what a call that re.error escapes from yields
ReErrorEscaped == -1

abort_on_re_error(rest) == ReErrorEscaped

\* except re.error: continue -- the scan goes on with the rest of the rules
continue_on_re_error(rest) == rest

\* the for loop: first matching rule in query order, else None
RECURSIVE FirstMatch(_, _)
FirstMatch(seq, text) ==
    IF seq = <<>> THEN None
    ELSE IF ReRaises(Head(seq))
    THEN continue_on_re_error(FirstMatch(Tail(seq), text))
    ELSE IF RuleMatches(Head(seq), text) THEN Head(seq).category_id
    ELSE FirstMatch(Tail(seq), text)

rule_based_categorize(rs, text) == FirstMatch(OrderedRules(rs), text)

\* ------------------------------------------------------------------- state
VARIABLES
    rules,            \* table categorization_rules: set of rows
    categories,       \* table categories: set of rows [id, name, parent_id]
    transactions,     \* table transactions: set of rows
    call,             \* the last categorizer call made and what it returned
    ml_created,       \* _ml_categorizer is not None
    vectorizer,       \* MLCategorizer.vectorizer
    classifier,       \* MLCategorizer.classifier
    category_mapping, \* MLCategorizer.category_mapping
    reverse_mapping,  \* MLCategorizer.reverse_mapping
    disk,             \* the three files of model_dir
    trained,          \* number of models built so far (object identities)
    trainPc,          \* position of the request running train()
    trainLoc,         \* its local variables
    trainRet,         \* what the last train() call returned
    predPc,           \* position of the request running predict()
    predLoc,          \* its local variables
    predRet,          \* what the last predict() call returned
    loadRet,          \* what load_model() returned in the constructor
    deleted_at,       \* the Transaction class maps a deleted_at column
    users,            \* rows of the users table
    session,          \* the session cookie of the client
    authRet,          \* the last answer of an /api/auth endpoint
    getPc,            \* position of each thread inside get_ml_categorizer()
    getLoc,           \* the MLCategorizer each thread has constructed
    getRet,           \* the MLCategorizer each thread was handed last
    instance,         \* the object _ml_categorizer refers to, None before
    constructed       \* number of MLCategorizer objects built so far

dbVars == <<rules, categories, transactions>>
mlMem == <<vectorizer, classifier, category_mapping, reverse_mapping>>
trainVars == <<trained, trainPc, trainLoc, trainRet>>
predVars == <<predPc, predLoc, predRet>>
mlVars == <<ml_created, mlMem, disk, trainVars, predVars, loadRet>>
authVars == <<users, session, authRet>>
singletonVars == <<getPc, getLoc, getRet, instance, constructed>>
appVars == <<deleted_at, authVars, singletonVars>>
vars == <<dbVars, call, mlVars, appVars>>

NoCall == [op |-> "none", merchant |-> <<>>, description |-> <<>>,
           result |-> None, ml |-> None, arg |-> None, n |-> 0, total |-> 0,
           preds |-> <<>>]

\* ------------------------------------------------------ text normalisation
\* MLCategorizer.preprocess_text on the alphabet {a, b, e, w, A, B, E, W,
\* space, #, (, 1} and texts of fewer than ten characters: of the prefix
\* and noise patterns only r'^web', r'\d{6,}' and r'#\d+' can match such a
\* text, the others need a letter, a punctuation mark or a digit run that
\* these texts do not have.
Letters == {"a", "b", "e", "w"}
Digits == {"1"}

\* re.sub(r'^web', '', text): the anchor lets it match once
RemoveWebPrefix(s) ==
    IF Len(s) >= 3 /\ SubSeq(s, 1, 3) = <<"w", "e", "b">>
    THEN SubSeq(s, 4, Len(s)) ELSE s

RECURSIVE DropDigits(_)
DropDigits(s) ==
    IF s # <<>> /\ Head(s) \in Digits THEN DropDigits(Tail(s)) ELSE s

\* re.sub(r'\d{6,}', ' ', text)
RECURSIVE RemoveLongNumbers(_)
RemoveLongNumbers(s) ==
    LET run == Len(s) - Len(DropDigits(s))
    IN  IF s = <<>> THEN <<>>
        ELSE IF run >= 6 THEN <<" ">> \o RemoveLongNumbers(DropDigits(s))
        ELSE IF run >= 1
        THEN SubSeq(s, 1, run) \o RemoveLongNumbers(DropDigits(s))
        ELSE <<Head(s)>> \o RemoveLongNumbers(Tail(s))

\* re.sub(r'#\d+', ' ', text)
RECURSIVE RemoveStoreNumbers(_)
RemoveStoreNumbers(s) ==
    IF s = <<>> THEN <<>>
    ELSE IF Head(s) = "#" /\ Len(s) >= 2 /\ s[2] \in Digits
         THEN <<" ">> \o RemoveStoreNumbers(DropDigits(Tail(s)))
         ELSE <<Head(s)>> \o RemoveStoreNumbers(Tail(s))

\* re.sub(r'[^a-z0-9\s]', ' ', text)
ReplaceSpecial(s) ==
    [i \in 1..Len(s) |->
        IF s[i] \in Letters \cup Digits \cup {" "} THEN s[i] ELSE " "]

\* ' '.join(text.split()) collapses runs of whitespace (and trims)
RECURSIVE SqueezeSpaces(_)
SqueezeSpaces(s) ==
    IF Len(s) <= 1 THEN s
    ELSE IF s[1] = " " /\ s[2] = " " THEN SqueezeSpaces(Tail(s))
    ELSE <<s[1]>> \o SqueezeSpaces(Tail(s))

preprocess_text(text) ==
    IF text = <<>> THEN <<>>
    ELSE strip(SqueezeSpaces(ReplaceSpecial(RemoveStoreNumbers(
            RemoveLongNumbers(RemoveWebPrefix(lower(text)))))))

\* ------------------------------------------------------- model components
\* An object is identified by the training run that created it (gen); the
\* attribute value None is the record of gen 0.
NoVectorizer == [gen |-> 0, state |-> "none"]
NoClassifier == [gen |-> 0, state |-> "none", n |-> 0]
NoMapping == [gen |-> 0, map |-> <<>>]

\* {i: cat_id for i, cat_id in enumerate(unique_labels)}
MappingOf(labels) == [i \in 0..(Len(labels) - 1) |-> labels[i + 1]]
\* {cat_id: i for i, cat_id in self.category_mapping.items()}
ReverseOf(m) ==
    [c \in {m[i] : i \in DOMAIN m} |-> SetMax({i \in DOMAIN m : m[i] = c})]

\* the top class probability, in percent, and the thresholds requests use
Confidences == {20, 90}
Thresholds == {DefaultThreshold, 30}

\* files of model_dir
Absent == [kind |-> "absent"]
Corrupt == [kind |-> "corrupt"]
Pickle(o) == [kind |-> "pickle", obj |-> o]
NoArtifacts ==
    [vectorizer |-> Absent, classifier |-> Absent, category_mapping |-> Absent]

FittedVectorizer(g) == [gen |-> g, state |-> "fitted"]
FittedClassifier(g, k) == [gen |-> g, state |-> "fitted", n |-> k]

\* MLCategorizer.load_model, run by the constructor on fields that are None
load_model(d) ==
    LET none == [ret |-> FALSE, vectorizer |-> NoVectorizer,
                 classifier |-> NoClassifier, category_mapping |-> NoMapping,
                 reverse_mapping |-> NoMapping]
    IN  IF \E f \in DOMAIN d : d[f] = Absent THEN none
        ELSE IF d.vectorizer = Corrupt THEN none
        ELSE IF d.classifier = Corrupt
             THEN [none EXCEPT !.vectorizer = d.vectorizer.obj]
        ELSE IF d.category_mapping = Corrupt
             THEN [none EXCEPT !.vectorizer = d.vectorizer.obj,
                               !.classifier = d.classifier.obj]
        ELSE [ret |-> TRUE, vectorizer |-> d.vectorizer.obj,
              classifier |-> d.classifier.obj,
              category_mapping |-> d.category_mapping.obj,
              reverse_mapping |->
                  [gen |-> d.category_mapping.obj.gen,
                   map |-> ReverseOf(d.category_mapping.obj.map)]]

\* ----------------------------------------------------------------- predict
\* line 462, `if not self.vectorizer or not self.classifier`.  The truth
\* value of a RandomForestClassifier is len(self.estimators_): an object
\* that fit() has not reached has no such attribute (AttributeError, raised
\* outside the try block), fit() starts from an empty list (falsy).
PredictGate(vec, clf) ==
    CASE vec.state = "none"    -> "return"
      [] clf.state = "none"    -> "return"
      [] clf.state = "unfit"   -> "raise"
      [] clf.state = "fitting" -> "return"
      [] OTHER                 -> "go"

\* line 470: transform() of a vectorizer that is not fitted raises
TransformOk(vec) == vec.state = "fitted"

\* lines 471-473: the (predicted_idx, confidence) pairs predict_proba and
\* argmax can yield; ok = FALSE is an exception.  What the forest has
\* learnt is not modelled: any class and any confidence may come out.
ProbaOutcomes(vecgen, clf) ==
    LET good == {[ok |-> TRUE, idx |-> i, conf |-> p] :
                    i \in 0..(clf.n - 1), p \in Confidences}
        bad == {[ok |-> FALSE, idx |-> 0, conf |-> 0]}
    IN  CASE clf.state = "fitted" /\ clf.gen = vecgen -> good
          [] clf.state = "fitted" -> good \cup bad
          [] clf.state = "fitting" -> good \cup bad
          [] OTHER -> bad

NoneResult == [cat |-> None, conf |-> 0, raised |-> FALSE]

\* lines 475-482
PredictReturn(mapping, idx, conf, thr) ==
    IF conf < thr THEN NoneResult
    ELSE IF idx \notin DOMAIN mapping.map THEN NoneResult
    ELSE [cat |-> mapping.map[idx], conf |-> conf, raised |-> FALSE]

\* predict(text, thr) run without interruption on the given attributes
predict(vec, clf, mapping, text, thr) ==
    CASE PredictGate(vec, clf) = "return" -> {NoneResult}
      [] PredictGate(vec, clf) = "raise" ->
            {[cat |-> None, conf |-> 0, raised |-> TRUE]}
      [] OTHER ->
            IF preprocess_text(text) = <<>> THEN {NoneResult}
            ELSE IF ~TransformOk(vec) THEN {NoneResult}
            ELSE {IF o.ok THEN PredictReturn(mapping, o.idx, o.conf, thr)
                  ELSE NoneResult : o \in ProbaOutcomes(vec.gen, clf)}

\* ml_categorize(merchant, description, confidence_threshold)
ml_categorize(merchant, description, thr) ==
    LET P(t) == predict(vectorizer, classifier, category_mapping, t, thr)
        \* results that end the chain: a category, or an exception
        Hit(t) == IF t = <<>> THEN {}
                  ELSE {r \in P(t) : r.cat # None \/ r.raised}
        \* the chain goes on: the text is absent or predict gave (None, 0)
        Miss(t) == t = <<>> \/ \E r \in P(t) : r.cat = None /\ ~r.raised
        combined == strip(merchant \o <<" ">> \o description)
    IN  Hit(merchant)
        \cup (IF Miss(merchant) THEN Hit(description) ELSE {})
        \cup (IF Miss(merchant) /\ Miss(description)
              THEN Hit(combined) ELSE {})
        \cup (IF Miss(merchant) /\ Miss(description) /\ Miss(combined)
              THEN {NoneResult} ELSE {})

\* -------------------------------------------------------------- categories
\* an INTEGER PRIMARY KEY of SQLite: the largest rowid in use plus one
RuleIds(rs) == {r.id : r \in rs}
NextRowId(ids) == IF ids = {} THEN 1 ELSE SetMax(ids) + 1

CategoryIds == {c.id : c \in categories}

\* delete_children: the ids of cat and of everything below it
RECURSIVE Subtree(_)
Subtree(ids) ==
    LET more == ids \cup {c.id : c \in {x \in categories : x.parent_id \in ids}}
    IN  IF more = ids THEN ids ELSE Subtree(more)

create_category(name, parent_id) ==
    IF \E c \in categories : c.name = name /\ c.parent_id = parent_id
    THEN /\ call' = [NoCall EXCEPT !.op = "create_category", !.result = 409]
         /\ UNCHANGED <<dbVars, mlVars, appVars>>
    ELSE /\ NextRowId(CategoryIds) <= MaxCats
         /\ categories' = categories \cup
                {[id |-> NextRowId(CategoryIds), name |-> name,
                  parent_id |-> parent_id]}
         /\ call' = [NoCall EXCEPT !.op = "create_category", !.result = 201]
         /\ UNCHANGED <<rules, transactions, mlVars, appVars>>

\* the categories below ids: their children, the children of those, ...
RECURSIVE Below(_, _)
Below(ids, seen) ==
    LET kids == {c.id : c \in {x \in categories : x.parent_id \in ids}} \ seen
    IN  IF kids = {} THEN seen ELSE Below(kids, seen \cup kids)

\* delete_children never returns when a category below cat, or cat itself,
\* is its own descendant: the recursion ends in RecursionError
RecursionError(category_id) ==
    \E x \in Subtree({category_id}) : x \in Below({x}, {})

DeletedOnlySelf(category_id) == {category_id}

\* the Category objects handed to db.session.delete
Deleted(category_id) == Subtree({category_id})

\* delete_children(category) and the delete of category; the unit of work
\* sets category_id to NULL in the transactions of every Category it
\* deletes (Category.transactions has no delete cascade), line 158 does so
\* for category_id itself; CategorizationRule is not touched
delete_category(category_id) ==
    IF category_id \notin CategoryIds
    THEN /\ call' = [NoCall EXCEPT !.op = "delete_category", !.result = 404,
                                   !.arg = category_id]
         /\ UNCHANGED <<dbVars, mlVars, appVars>>
    ELSE IF RecursionError(category_id)
    THEN /\ call' = [NoCall EXCEPT !.op = "delete_category", !.result = 500,
                                   !.arg = category_id]
         /\ UNCHANGED <<dbVars, mlVars, appVars>>
    ELSE LET gone == Deleted(category_id)
         IN  /\ categories' = {c \in categories : c.id \notin gone}
             /\ transactions' =
                   {IF t.category_id \in gone
                    THEN [t EXCEPT !.category_id = None] ELSE t :
                    t \in transactions}
             /\ call' = [NoCall EXCEPT
                    !.op = "delete_category", !.result = 200,
                    !.arg = category_id, !.n = Cardinality(gone),
                    !.total = Cardinality({t \in transactions :
                                             t.category_id \in gone})]
             /\ UNCHANGED <<rules, mlVars, appVars>>

\* ------------------------------------------------------------ orchestrator
\* the classifier hook of categorizer.py is a stub
classifier_predict(text) == None

FirstCategoryId ==
    IF categories = {} THEN None ELSE SetMin({c.id : c \in categories})

\* Category.query.filter_by(name='Uncategorized').first()
UncategorizedId ==
    LET u == {c.id : c \in {x \in categories : x.name = "Uncategorized"}}
    IN  IF u = {} THEN None ELSE SetMin(u)

primary_text(merchant) == strip(lower(merchant))
secondary_text(description) == strip(lower(description))
combined_text(merchant, description) ==
    strip(primary_text(merchant) \o <<" ">> \o secondary_text(description))

categorize_transaction_description_first(merchant, description) ==
    LET p == primary_text(merchant)
        s == secondary_text(description)
        r1 == IF p # <<>> THEN rule_based_categorize(rules, p) ELSE None
        r2 == IF s # <<>> THEN rule_based_categorize(rules, s) ELSE None
    IN  IF r2 # None THEN r2 ELSE IF r1 # None THEN r1 ELSE UncategorizedId

categorize_transaction_model_first(merchant, description) ==
    LET m == ml_categorize(merchant, description, DefaultThreshold)
        best == CHOOSE r \in m : \A o \in m : o.conf <= r.conf
    IN  IF best.cat # None THEN best.cat
        ELSE rule_based_categorize(rules, primary_text(merchant))

categorize_transaction(merchant, description) ==
    LET p == primary_text(merchant)
        s == secondary_text(description)
        c == combined_text(merchant, description)
        r1 == IF p # <<>> THEN rule_based_categorize(rules, p) ELSE None
        r2 == IF s # <<>> THEN rule_based_categorize(rules, s) ELSE None
        r3 == IF c # <<>> THEN rule_based_categorize(rules, c) ELSE None
    IN  IF r1 # None THEN r1
        ELSE IF r2 # None THEN r2
        ELSE IF r3 # None THEN r3
        ELSE IF classifier_predict(c) # None THEN classifier_predict(c)
        ELSE UncategorizedId

\* ----------------------------------------------------------- rule actions
add_categorization_rule(pattern, category_id, match_type, priority) ==
    LET same == {r \in rules : r.pattern = pattern /\ r.category_id = category_id}
    IN  /\ IF same # {}
           THEN LET existing == CHOOSE r \in same : \A o \in same : r.id <= o.id
                IN  rules' = (rules \ {existing}) \cup
                        {[existing EXCEPT !.match_type = match_type,
                                          !.priority = priority]}
           ELSE /\ NextRowId(RuleIds(rules)) <= MaxRules
                /\ rules' = rules \cup
                        {[id |-> NextRowId(RuleIds(rules)), pattern |-> pattern,
                          match_type |-> match_type, category_id |-> category_id,
                          priority |-> priority]}
        /\ call' = NoCall
        /\ UNCHANGED <<categories, transactions, mlVars, appVars>>

delete_categorization_rule(rule_id) ==
    /\ \E r \in rules : r.id = rule_id
    /\ rules' = {r \in rules : r.id # rule_id}
    /\ call' = NoCall
    /\ UNCHANGED <<categories, transactions, mlVars, appVars>>

\* a direct call of rule_based_categorize(text)
CallRuleBasedCategorize(text) ==
    /\ call' = [NoCall EXCEPT !.op = "rule_based_categorize",
                              !.merchant = text,
                              !.result = rule_based_categorize(rules, text)]
    /\ UNCHANGED <<dbVars, mlVars, appVars>>

\* a call of categorize_transaction(merchant, description); next to its
\* result the record keeps what ml_categorize answers for the same input
CallCategorizeTransaction(merchant, description) ==
    /\ \E m \in ml_categorize(merchant, description, DefaultThreshold) :
          call' = [NoCall EXCEPT
                   !.op = "categorize_transaction", !.merchant = merchant,
                   !.description = description,
                   !.result = categorize_transaction(merchant, description),
                   !.ml = m.cat]
    /\ UNCHANGED <<dbVars, mlVars, appVars>>

\* ------------------------------------------------------------ initial state
NoTrainLoc == [labels |-> <<>>, samples |-> 0]
NoTrainRet == [status |-> "none", saved |-> FALSE, input |-> <<>>]
NoPredLoc == [text |-> <<>>, thr |-> 0, vec |-> 0, clf |-> 0, idx |-> 0, conf |-> 0]
NoPredRet == [status |-> "none", cat |-> None, conf |-> 0, thr |-> 0,
              text |-> <<>>, gate |-> "none", top |-> None, vec |-> 0,
              clf |-> 0, mapping |-> NoMapping, looked |-> FALSE]

NoSession == [user_id |-> None, username |-> ""]
NoAuthRet == [op |-> "none", status |-> 0, username |-> "", password |-> "",
              user_id |-> None]

InitDb ==
    /\ rules = {}
    /\ categories = {}
    /\ transactions = {}
    /\ call = NoCall
    /\ users = {}
    /\ session = NoSession
    /\ authRet = NoAuthRet

\* models.py defines no deleted_at on Transaction
InitSchema == deleted_at = FALSE

MaxThreads == 2
Threads == 1..MaxThreads

InitProcesses ==
    /\ getPc = [t \in Threads |-> "idle"]
    /\ getLoc = [t \in Threads |-> None]
    /\ getRet = [t \in Threads |-> None]
    /\ trainPc = "idle"
    /\ trainLoc = NoTrainLoc
    /\ trainRet = NoTrainRet
    /\ predPc = "idle"
    /\ predLoc = NoPredLoc
    /\ predRet = NoPredRet

\* process start: no singleton yet, empty model_dir
InitML ==
    /\ ml_created = FALSE
    /\ instance = None
    /\ constructed = 0
    /\ vectorizer = NoVectorizer
    /\ classifier = NoClassifier
    /\ category_mapping = NoMapping
    /\ reverse_mapping = NoMapping
    /\ disk = NoArtifacts
    /\ trained = 0
    /\ loadRet = "none"
    /\ InitProcesses

\* the files a successful train() over the categories 1 and 2 leaves
TrainedArtifacts ==
    [vectorizer |-> Pickle(FittedVectorizer(1)),
     classifier |-> Pickle(FittedClassifier(1, 2)),
     category_mapping |-> Pickle([gen |-> 1, map |-> MappingOf(<<1, 2>>)])]

\* the singleton as its constructor leaves it, on an empty model_dir or on
\* the files of an earlier training run
InitLoaded ==
    /\ disk \in {NoArtifacts, TrainedArtifacts}
    /\ ml_created = TRUE
    /\ instance = 1
    /\ constructed = 1
    /\ vectorizer = load_model(disk).vectorizer
    /\ classifier = load_model(disk).classifier
    /\ category_mapping = load_model(disk).category_mapping
    /\ reverse_mapping = load_model(disk).reverse_mapping
    /\ loadRet = IF load_model(disk).ret THEN "true" ELSE "false"
    /\ trained = IF disk = NoArtifacts THEN 0 ELSE 1
    /\ InitProcesses

\* ------------------------------------------------- the rule engine alone
EnginePatterns == {<<"A">>, <<".">>, <<"(">>}
EngineTexts == {<<>>, <<"a">>, <<"A">>, <<"b", "(">>}
MatchTypes == {"exact", "contains", "regex"}
RuleCategoryIds == {1, 2}
Priorities == {5, 10}

InitRules == InitDb /\ InitML /\ InitSchema

AddEngineRule ==
    \E p \in EnginePatterns, c \in RuleCategoryIds, mt \in MatchTypes,
       pr \in Priorities : add_categorization_rule(p, c, mt, pr)

DeleteRule == \E id \in 1..MaxRules : delete_categorization_rule(id)

EngineCall == \E t \in EngineTexts : CallRuleBasedCategorize(t)

NextRules == AddEngineRule \/ DeleteRule \/ EngineCall

SpecRules == InitRules /\ [][NextRules]_vars

\* --------------------------------------------------------- the orchestrator
CatPatterns == {<<"a">>, <<"b">>, <<"a", " ", "b">>}
CatMerchants == {<<>>, <<"A", " ">>}
CatDescriptions == {<<>>, <<"b">>}
CategoryNames == {"Uncategorized", "Food"}

InitCat == InitDb /\ InitLoaded /\ InitSchema

\* add_categorization_rule with its default match_type
AddCatRule ==
    \E p \in CatPatterns, c \in RuleCategoryIds, pr \in Priorities :
        add_categorization_rule(p, c, "contains", pr)

CreateRootCategory == \E n \in CategoryNames : create_category(n, None)

DeleteCategory == \E id \in 1..MaxCats : delete_category(id)

Categorize ==
    \E m \in CatMerchants, d \in CatDescriptions :
        CallCategorizeTransaction(m, d)

NextCat ==
    AddCatRule \/ DeleteRule \/ CreateRootCategory \/ DeleteCategory \/ Categorize

SpecCat == InitCat /\ [][NextCat]_vars

\* ------------------------------------------------------------------ training
\* What get_training_data returns is an input of the model: counts[l] is
\* the number of (text, label) pairs whose label is category l.
TrainLabels == {1, 2, 3}
TrainingInputs ==
    {<<4, 4, 0>>, <<5, 4, 1>>, <<5, 5, 0>>, <<0, 5, 5>>, <<4, 4, 2>>, <<5, 5, 5>>}

RECURSIVE SumOver(_, _)
SumOver(counts, labels) ==
    IF labels = {} THEN 0
    ELSE LET l == SetMin(labels)
         IN  counts[l] + SumOver(counts, labels \ {l})

\* len(texts)
SampleCount(counts) == SumOver(counts, TrainLabels)

\* valid_labels: the labels with at least min_samples_per_category examples
ValidLabels(counts) ==
    {l \in TrainLabels : counts[l] >= MinSamplesPerCategory}

UnfilteredCount(counts) == SampleCount(counts)

\* len(filtered_texts)
FilteredCount(counts) == SumOver(counts, ValidLabels(counts))

\* sorted(list(set(filtered_labels)))
RECURSIVE SortedSeq(_)
SortedSeq(S) ==
    IF S = {} THEN <<>> ELSE <<SetMin(S)>> \o SortedSeq(S \ {SetMin(S)})

UniqueLabelsDescending(counts) ==
    LET s == SortedSeq(ValidLabels(counts))
    IN  [i \in 1..Len(s) |-> s[Len(s) + 1 - i]]

UniqueLabels(counts) == SortedSeq(ValidLabels(counts))

\* train_test_split(test_size=0.2, stratify=y) raises ValueError when the
\* test part, ceil(0.2 n), or the train part has fewer samples than classes
SplitRaises(n, k) ==
    LET n_test == (n + 4) \div 5
    IN  n_test < k \/ n - n_test < k

\* lines 372-396: the data is assembled and checked; nothing of self is
\* read or written before the two checks have passed.  Building the query
\* of get_training_data (line 353) raises AttributeError when Transaction
\* has no deleted_at.
TrainStart(counts) ==
    /\ ml_created
    /\ trainPc = "idle"
    /\ IF ~deleted_at
       THEN /\ trainRet' = [status |-> "raised", saved |-> FALSE,
                            input |-> counts]
            /\ UNCHANGED <<trained, trainPc, trainLoc>>
       ELSE IF SampleCount(counts) < MinTrainingSamples
       THEN /\ trainRet' = [status |-> "insufficient_data", saved |-> FALSE,
                            input |-> counts]
            /\ UNCHANGED <<trained, trainPc, trainLoc>>
       ELSE IF FilteredCount(counts) < MinTrainingSamples
       THEN /\ trainRet' = [status |-> "insufficient_samples", saved |-> FALSE,
                            input |-> counts]
            /\ UNCHANGED <<trained, trainPc, trainLoc>>
       ELSE /\ trained < MaxTrains
            /\ trained' = trained + 1
            /\ trainPc' = "map"
            /\ trainLoc' = [labels |-> UniqueLabels(counts),
                            samples |-> FilteredCount(counts)]
            /\ trainRet' = [status |-> "running", saved |-> FALSE,
                            input |-> counts]
    /\ UNCHANGED <<appVars, dbVars, call, ml_created, mlMem, disk, predVars, loadRet>>

\* lines 399-409: both mappings are assigned, then the data is split; an
\* exception of the split leaves train() through the handler of train_model
TrainMap ==
    /\ trainPc = "map"
    /\ category_mapping' = [gen |-> trained, map |-> MappingOf(trainLoc.labels)]
    /\ reverse_mapping' =
          [gen |-> trained, map |-> ReverseOf(MappingOf(trainLoc.labels))]
    /\ IF SplitRaises(trainLoc.samples, Len(trainLoc.labels))
       THEN /\ trainPc' = "idle"
            /\ trainLoc' = NoTrainLoc
            /\ trainRet' = [trainRet EXCEPT !.status = "raised"]
       ELSE /\ trainPc' = "vec"
            /\ UNCHANGED <<trainLoc, trainRet>>
    /\ UNCHANGED <<appVars, dbVars, call, ml_created, vectorizer, classifier, disk,
                   trained, predVars, loadRet>>

\* line 412: self.vectorizer = TfidfVectorizer(...)
TrainVectorizer ==
    /\ trainPc = "vec"
    /\ vectorizer' = [gen |-> trained, state |-> "unfit"]
    /\ trainPc' = "vecfit"
    /\ UNCHANGED <<appVars, dbVars, call, ml_created, classifier, category_mapping,
                   reverse_mapping, disk, trained, trainLoc, trainRet,
                   predVars, loadRet>>

\* lines 418-419: fit_transform
TrainVectorizerFit ==
    /\ trainPc = "vecfit"
    /\ vectorizer' = [vectorizer EXCEPT !.state = "fitted"]
    /\ trainPc' = "clf"
    /\ UNCHANGED <<appVars, dbVars, call, ml_created, classifier, category_mapping,
                   reverse_mapping, disk, trained, trainLoc, trainRet,
                   predVars, loadRet>>

\* line 422: self.classifier = RandomForestClassifier(...)
TrainClassifier ==
    /\ trainPc = "clf"
    /\ classifier' = [gen |-> trained, state |-> "unfit",
                      n |-> Len(trainLoc.labels)]
    /\ trainPc' = "clffit"
    /\ UNCHANGED <<appVars, dbVars, call, ml_created, vectorizer, category_mapping,
                   reverse_mapping, disk, trained, trainLoc, trainRet,
                   predVars, loadRet>>

\* line 429: fit() validates its input and sets estimators_ = []
TrainClassifierFitBegin ==
    /\ trainPc = "clffit"
    /\ classifier' = [classifier EXCEPT !.state = "fitting"]
    /\ trainPc' = "clffit2"
    /\ UNCHANGED <<appVars, dbVars, call, ml_created, vectorizer, category_mapping,
                   reverse_mapping, disk, trained, trainLoc, trainRet,
                   predVars, loadRet>>

\* line 429: fit() has grown the trees; lines 432-444 only read
TrainClassifierFitEnd ==
    /\ trainPc = "clffit2"
    /\ classifier' = [classifier EXCEPT !.state = "fitted"]
    /\ trainPc' = "save"
    /\ UNCHANGED <<appVars, dbVars, call, ml_created, vectorizer, category_mapping,
                   reverse_mapping, disk, trained, trainLoc, trainRet,
                   predVars, loadRet>>

\* save_model: the three files are written in turn.  `failure` names the
\* write that raises: opening a file for writing fails (file untouched) or
\* pickle.dump fails (file opened, hence truncated, and left unreadable).
SaveFailures ==
    {"none", "vectorizer_open", "vectorizer_dump", "classifier_open",
     "classifier_dump", "mapping_open", "mapping_dump"}

save_model(d, failure) ==
    LET v == Pickle(vectorizer)
        c == Pickle(classifier)
        m == Pickle(category_mapping)
    IN  CASE failure = "vectorizer_open" -> [ret |-> FALSE, disk |-> d]
          [] failure = "vectorizer_dump" ->
                [ret |-> FALSE, disk |-> [d EXCEPT !.vectorizer = Corrupt]]
          [] failure = "classifier_open" ->
                [ret |-> FALSE, disk |-> [d EXCEPT !.vectorizer = v]]
          [] failure = "classifier_dump" ->
                [ret |-> FALSE,
                 disk |-> [d EXCEPT !.vectorizer = v, !.classifier = Corrupt]]
          [] failure = "mapping_open" ->
                [ret |-> FALSE,
                 disk |-> [d EXCEPT !.vectorizer = v, !.classifier = c]]
          [] failure = "mapping_dump" ->
                [ret |-> FALSE,
                 disk |-> [d EXCEPT !.vectorizer = v, !.classifier = c,
                                    !.category_mapping = Corrupt]]
          [] OTHER ->
                [ret |-> TRUE,
                 disk |-> [vectorizer |-> v, classifier |-> c,
                           category_mapping |-> m]]

\* lines 447-455: the value of save_model() is dropped
TrainResult(saved) == "success"

\* lines 446-455: save_model(), then the result is returned
TrainSave ==
    /\ trainPc = "save"
    /\ \E failure \in SaveFailures :
          /\ disk' = save_model(disk, failure).disk
          /\ trainRet' =
                [trainRet EXCEPT
                    !.status = TrainResult(save_model(disk, failure).ret),
                    !.saved = save_model(disk, failure).ret]
    /\ trainPc' = "idle"
    /\ trainLoc' = NoTrainLoc
    /\ UNCHANGED <<appVars, dbVars, call, ml_created, mlMem, trained, predVars, loadRet>>

\* ------------------------------------------------------------- the singleton
\* get_ml_categorizer() on first use: MLCategorizer() runs load_model()
\* before the instance is published in _ml_categorizer
GetMLCategorizer ==
    /\ ~ml_created
    /\ ml_created' = TRUE
    /\ constructed' = constructed + 1
    /\ instance' = constructed + 1
    /\ vectorizer' = load_model(disk).vectorizer
    /\ classifier' = load_model(disk).classifier
    /\ category_mapping' = load_model(disk).category_mapping
    /\ reverse_mapping' = load_model(disk).reverse_mapping
    /\ loadRet' = IF load_model(disk).ret THEN "true" ELSE "false"
    /\ UNCHANGED <<deleted_at, authVars, getPc, getLoc, getRet, dbVars, call,
                   disk, trainVars, predVars>>

\* the server process is stopped between requests and started again: the
\* module globals are gone, the files of model_dir stay
Restart ==
    /\ ml_created
    /\ trainPc = "idle"
    /\ predPc = "idle"
    /\ ml_created' = FALSE
    /\ vectorizer' = NoVectorizer
    /\ classifier' = NoClassifier
    /\ category_mapping' = NoMapping
    /\ reverse_mapping' = NoMapping
    /\ loadRet' = "none"
    /\ trainRet' = NoTrainRet
    /\ predRet' = NoPredRet
    /\ instance' = None
    /\ constructed' = 0
    /\ UNCHANGED <<deleted_at, authVars, getPc, getLoc, getRet, dbVars, call,
                   disk, trained, trainPc, trainLoc, predPc, predLoc>>

\* ------------------------------------------------------- predict, by steps
PredictTexts == {<<"#", "1">>, <<"A", " ">>}

PredReturn(text, thr, gate, top, vec, clf, mapping, looked, r) ==
    [status |-> IF r.raised THEN "raised" ELSE "returned",
     cat |-> r.cat, conf |-> r.conf, thr |-> thr, text |-> text,
     gate |-> gate, top |-> top, vec |-> vec, clf |-> clf,
     mapping |-> mapping, looked |-> looked]

\* lines 462-467
PredictStart(text, thr) ==
    /\ ml_created
    /\ predPc = "idle"
    /\ LET gate == PredictGate(vectorizer, classifier)
       IN  IF gate = "go" /\ preprocess_text(text) # <<>>
           THEN /\ predPc' = "transform"
                /\ predLoc' = [NoPredLoc EXCEPT !.text = text, !.thr = thr]
                /\ predRet' = [NoPredRet EXCEPT !.status = "running"]
           ELSE /\ predRet' =
                      PredReturn(text, thr, gate, None, 0, 0, NoMapping, FALSE,
                                 [NoneResult EXCEPT !.raised = (gate = "raise")])
                /\ UNCHANGED <<predPc, predLoc>>
    /\ UNCHANGED <<appVars, dbVars, call, ml_created, mlMem, disk, trainVars, loadRet>>

\* line 470: self.vectorizer.transform; an exception ends in (None, 0)
PredictTransform ==
    /\ predPc = "transform"
    /\ IF TransformOk(vectorizer)
       THEN /\ predPc' = "proba"
            /\ predLoc' = [predLoc EXCEPT !.vec = vectorizer.gen]
            /\ UNCHANGED predRet
       ELSE /\ predPc' = "idle"
            /\ predLoc' = NoPredLoc
            /\ predRet' = PredReturn(predLoc.text, predLoc.thr, "go", None,
                                     vectorizer.gen, 0, NoMapping, FALSE,
                                     NoneResult)
    /\ UNCHANGED <<appVars, dbVars, call, ml_created, mlMem, disk, trainVars, loadRet>>

\* lines 471-476: self.classifier.predict_proba, argmax, threshold
PredictProba ==
    /\ predPc = "proba"
    /\ \E o \in ProbaOutcomes(predLoc.vec, classifier) :
          IF o.ok /\ o.conf >= predLoc.thr
          THEN /\ predPc' = "lookup"
               /\ predLoc' = [predLoc EXCEPT !.clf = classifier.gen,
                                             !.idx = o.idx, !.conf = o.conf]
               /\ UNCHANGED predRet
          ELSE /\ predPc' = "idle"
               /\ predLoc' = NoPredLoc
               /\ predRet' = PredReturn(predLoc.text, predLoc.thr, "go",
                                        IF o.ok THEN o.conf ELSE None,
                                        predLoc.vec, classifier.gen, NoMapping,
                                        FALSE, NoneResult)
    /\ UNCHANGED <<appVars, dbVars, call, ml_created, mlMem, disk, trainVars, loadRet>>

\* lines 478-482: self.category_mapping[predicted_idx]
PredictLookup ==
    /\ predPc = "lookup"
    /\ predPc' = "idle"
    /\ predLoc' = NoPredLoc
    /\ predRet' = PredReturn(predLoc.text, predLoc.thr, "go", predLoc.conf,
                             predLoc.vec, predLoc.clf, category_mapping, TRUE,
                             PredictReturn(category_mapping, predLoc.idx,
                                           predLoc.conf, predLoc.thr))
    /\ UNCHANGED <<appVars, dbVars, call, ml_created, mlMem, disk, trainVars, loadRet>>

\* ------------------------------------- training and prediction side by side
Train == \E counts \in TrainingInputs : TrainStart(counts)

Predict == \E t \in PredictTexts, thr \in Thresholds : PredictStart(t, thr)

NextML ==
    \/ GetMLCategorizer
    \/ Train
    \/ TrainMap
    \/ TrainVectorizer
    \/ TrainVectorizerFit
    \/ TrainClassifier
    \/ TrainClassifierFitBegin
    \/ TrainClassifierFitEnd
    \/ TrainSave
    \/ Predict
    \/ PredictTransform
    \/ PredictProba
    \/ PredictLookup

\* get_training_data, budgets.py and reports.py filter on
\* Transaction.deleted_at, a column models.py does not define: training is
\* followed both with the Transaction class of models.py and with the one
\* those queries are written against
InitTrain == InitDb /\ InitML /\ deleted_at \in BOOLEAN

SpecML == InitTrain /\ [][NextML]_vars

\* the same with restarts of the server process
NextPersist == NextML \/ Restart

SpecPersist == InitTrain /\ [][NextPersist]_vars

\* ------------------------------------------------------------------ claims
Matching(text) == {r \in rules : RuleMatches(r, text)}

\* C1: rule_based_categorize(text) returns the category of a matching rule
\* whose priority is greatest among the matching rules, whatever the order
\* of creation (row ids), and returns None exactly when no rule matches.
C1_HighestPriorityMatchWins ==
    call.op = "rule_based_categorize" =>
        LET m == Matching(call.merchant)
        IN  /\ (call.result = None) <=> (m = {})
            /\ call.result # None =>
                  \E r \in m : /\ r.category_id = call.result
                               /\ \A o \in m : o.priority <= r.priority

\* a later-created rule of higher priority beat an earlier-created match
C1_Witness ==
    /\ call.op = "rule_based_categorize"
    /\ \E r1, r2 \in Matching(call.merchant) :
          /\ r1.id < r2.id
          /\ r1.priority < r2.priority
          /\ r1.category_id # r2.category_id
          /\ call.result = r2.category_id

\* the texts categorize_transaction hands to the rule engine
Variants(merchant, description) ==
    {primary_text(merchant), secondary_text(description),
     combined_text(merchant, description)} \ {<<>>}

SomeRuleMatches ==
    \E t \in Variants(call.merchant, call.description) : Matching(t) # {}

\* C2: whenever some rule matches the merchant text, the description text
\* or their concatenation, categorize_transaction returns the category of
\* a rule that matches one of them, whatever the loaded model predicts.
C2_RulesOverrideModel ==
    (call.op = "categorize_transaction" /\ SomeRuleMatches) =>
        \E t \in Variants(call.merchant, call.description) :
            \E r \in Matching(t) : r.category_id = call.result

\* a loaded model predicts a category no matching rule has, the rule wins
C2_Witness ==
    /\ call.op = "categorize_transaction"
    /\ SomeRuleMatches
    /\ classifier.state = "fitted"
    /\ call.ml # None
    /\ call.ml # call.result
    /\ \A t \in Variants(call.merchant, call.description) :
          \A r \in Matching(t) : r.category_id # call.ml

\* C3: when no rule matches any of the texts and the loaded model predicts
\* a category with confidence at or above the threshold,
\* categorize_transaction returns the model's category.
C3_ModelFallback ==
    (call.op = "categorize_transaction" /\ ~SomeRuleMatches /\ call.ml # None)
        => call.result = call.ml

\* the categories of the matching rules of greatest priority
Best(text) ==
    {r.category_id : r \in {x \in Matching(text) :
                              \A o \in Matching(text) : o.priority <= x.priority}}

\* C4: the rule engine is asked about the merchant text, then the
\* description text, then "<merchant> <description>", and the first answer
\* is returned: a match on the merchant text wins over every rule that
\* matches only the description, whatever its priority.
C4_MerchantThenDescriptionThenBoth ==
    call.op = "categorize_transaction" =>
        LET p == primary_text(call.merchant)
            s == secondary_text(call.description)
            c == combined_text(call.merchant, call.description)
        IN  IF p # <<>> /\ Matching(p) # {} THEN call.result \in Best(p)
            ELSE IF s # <<>> /\ Matching(s) # {} THEN call.result \in Best(s)
            ELSE IF c # <<>> /\ Matching(c) # {} THEN call.result \in Best(c)
            ELSE TRUE

\* a rule of lower priority on the merchant text beat a rule that matches
\* only the description
C4_Witness ==
    /\ call.op = "categorize_transaction"
    /\ \E r1 \in Matching(primary_text(call.merchant)) :
       \E r2 \in Matching(secondary_text(call.description)) :
          /\ r2 \notin Matching(primary_text(call.merchant))
          /\ r2.priority > r1.priority
          /\ r1.category_id # r2.category_id
          /\ call.result = r1.category_id

UncategorizedExists == \E c \in categories : c.name = "Uncategorized"

\* C5: when no rule matches (the classifier hook yields nothing),
\* categorize_transaction returns the id of a category named
\* 'Uncategorized' if there is one and None otherwise; so while such a
\* category exists it never returns None.
C5_UncategorizedFallback ==
    call.op = "categorize_transaction" =>
        /\ UncategorizedExists => call.result # None
        /\ ~SomeRuleMatches =>
              IF UncategorizedExists
              THEN \E c \in categories :
                      c.name = "Uncategorized" /\ c.id = call.result
              ELSE call.result = None

\* no rule matched and the Uncategorized row, not the first row of the
\* table, was returned
C5_Witness ==
    /\ call.op = "categorize_transaction"
    /\ ~SomeRuleMatches
    /\ call.merchant # <<>>
    /\ \E c \in categories : c.name = "Uncategorized" /\ c.id = call.result
    /\ \E c \in categories : c.id < call.result

UsableExamples(counts) ==
    SumOver(counts, {l \in TrainLabels : counts[l] >= MinSamplesPerCategory})

\* C7: a train() call that finds fewer than 10 usable examples returns a
\* failure and changes neither the attributes of the categorizer nor the
\* files of model_dir.
C7_InsufficientDataLeavesModel ==
    [][(/\ trainPc = "idle"
        /\ trainRet' # trainRet
        /\ trainRet'.input # <<>>
        /\ UsableExamples(trainRet'.input) < MinTrainingSamples)
       => (/\ trainRet'.status \in {"insufficient_data", "insufficient_samples"}
           /\ UNCHANGED <<mlMem, disk>>)]_vars

\* train() refused ten examples of which nine are usable while a trained
\* model was in memory and on disk
C7_Witness ==
    /\ trainRet.status = "insufficient_samples"
    /\ SampleCount(trainRet.input) >= MinTrainingSamples
    /\ UsableExamples(trainRet.input) < MinTrainingSamples
    /\ classifier.state = "fitted"
    /\ vectorizer.state = "fitted"
    /\ \A f \in DOMAIN disk : disk[f].kind = "pickle"

C9_LoadAllOrNothing ==
    (loadRet # "none" /\ trainRet.status = "none") =>
        /\ (\E f \in DOMAIN disk : disk[f].kind # "pickle") => loadRet = "false"
        /\ loadRet = "false" =>
              /\ vectorizer = NoVectorizer
              /\ classifier = NoClassifier
              /\ category_mapping = NoMapping

C11_TrainNeverRaises == trainRet.status # "raised"

\* ---------------------------------------------------------- category tree
MaxTxns == 2

TxnIds == {t.id : t \in transactions}

\* PUT /api/categories/<id>; has_name and has_parent tell which keys the
\* body carries.  An answer other than 200 leaves the request without a
\* commit, so an assignment made before it is rolled back.
update_category(category_id, has_name, name, has_parent, parent_id) ==
    LET ret(status) == [NoCall EXCEPT !.op = "update_category",
                                      !.result = status, !.arg = category_id]
    IN
    IF category_id \notin CategoryIds
    THEN call' = ret(404) /\ UNCHANGED <<dbVars, mlVars, appVars>>
    ELSE IF ~has_name /\ ~has_parent
    THEN call' = ret(400) /\ UNCHANGED <<dbVars, mlVars, appVars>>
    ELSE
    LET category == CHOOSE c \in categories : c.id = category_id
        wanted == IF has_parent THEN parent_id ELSE category.parent_id
        same == {c.id : c \in {x \in categories :
                                 x.name = name /\ x.parent_id = wanted}}
        existing == IF same = {} THEN None ELSE SetMin(same)
        named == IF has_name THEN [category EXCEPT !.name = name] ELSE category
        moved == IF has_parent THEN [named EXCEPT !.parent_id = parent_id]
                 ELSE named
    IN  IF has_name /\ existing # None /\ existing # category_id
        THEN call' = ret(409) /\ UNCHANGED <<dbVars, mlVars, appVars>>
        ELSE IF has_parent /\ parent_id = category_id
        THEN call' = ret(400) /\ UNCHANGED <<dbVars, mlVars, appVars>>
        ELSE /\ categories' = (categories \ {category}) \cup {moved}
             /\ call' = ret(200)
             /\ UNCHANGED <<rules, transactions, mlVars, appVars>>

\* POST /api/transactions with a valid date and amount: a category_id of
\* the body is stored as it is, without one the categorizer is asked
create_transaction(description, merchant, category_id) ==
    /\ NextRowId(TxnIds) <= MaxTxns
    /\ transactions' = transactions \cup
          {[id |-> NextRowId(TxnIds), merchant |-> merchant,
            description |-> description,
            category_id |-> IF category_id # None THEN category_id
                            ELSE categorize_transaction(description, merchant)]}
    /\ call' = [NoCall EXCEPT !.op = "create_transaction", !.result = 201,
                              !.merchant = merchant,
                              !.description = description,
                              !.arg = category_id]
    /\ UNCHANGED <<rules, categories, mlVars, appVars>>

ParentIds == {None} \cup 1..MaxCats

\* the tree: categories of one name under any parent id, and transactions
CreateCategory == \E p \in ParentIds : create_category("Food", p)

UpdateCategory ==
    \E id \in 1..MaxCats, hn, hp \in BOOLEAN, p \in ParentIds :
        /\ (~hp => p = None)
        /\ update_category(id, hn, "Food", hp, p)

CreateTransaction ==
    \E c \in ParentIds : create_transaction(<<"b">>, <<>>, c)

NextTree ==
    CreateCategory \/ UpdateCategory \/ DeleteCategory \/ CreateTransaction

SpecTree == InitRules /\ [][NextTree]_vars

\* names: categories of two names at the root or under category 1
TreeNames == {"Food", "Fun"}
NamedParents == {None, 1}

CreateNamed ==
    \E n \in TreeNames, p \in NamedParents : create_category(n, p)

UpdateNamed ==
    \E id \in 1..MaxCats, hn, hp \in BOOLEAN, n \in TreeNames,
       p \in NamedParents :
        /\ (~hn => n = "Food")
        /\ (~hp => p = None)
        /\ update_category(id, hn, n, hp, p)

NextNames == CreateNamed \/ UpdateNamed

SpecNames == InitRules /\ [][NextNames]_vars

\* rules of existing categories, deletion of categories, categorization
AddTreeRule ==
    \E c \in CategoryIds, pr \in Priorities :
        add_categorization_rule(<<"a">>, c, "contains", pr)

CategorizeTree ==
    \E m \in {<<"A">>, <<"b">>} : CallCategorizeTransaction(m, <<>>)

NextDangling ==
    \/ CreateRootCategory
    \/ DeleteCategory
    \/ AddTreeRule
    \/ DeleteRule
    \/ CategorizeTree

SpecDangling == InitRules /\ [][NextDangling]_vars

\* ------------------------------------------------- claims on the tree
\* the parent_id of the category id, None when there is no such category
ParentOf(id) ==
    IF \E c \in categories : c.id = id
    THEN (CHOOSE c \in categories : c.id = id).parent_id
    ELSE None

\* the ids met when following parent_id from id for at most k steps
RECURSIVE Ancestors(_, _)
Ancestors(id, k) ==
    IF k = 0 \/ ParentOf(id) = None THEN {}
    ELSE {ParentOf(id)} \cup Ancestors(ParentOf(id), k - 1)

\* C12: the parent relation is acyclic, no category is its own ancestor.
C12_NoCycles ==
    \A c \in categories : c.id \notin Ancestors(c.id, Cardinality(categories))

\* C13: a successful delete_category(c) removes c and every descendant of
\* c, and every transaction that referenced one of them has category_id
\* null afterwards.
C13_DeleteCascades ==
    [][(call'.op = "delete_category" /\ call'.result = 200) =>
        \A x \in CategoryIds :
            (x = call'.arg \/ call'.arg \in Ancestors(x, Cardinality(categories)))
            => /\ x \notin {c.id : c \in categories'}
               /\ \A t \in transactions' : t.category_id # x
               /\ \A t \in transactions : t.category_id = x =>
                      [t EXCEPT !.category_id = None] \in transactions']_vars

\* a category with a child was deleted and a transaction lost its category
C13_Witness ==
    /\ call.op = "delete_category"
    /\ call.result = 200
    /\ call.n >= 2
    /\ call.total >= 1
    /\ \E t \in transactions : t.category_id = None
    /\ call.arg \notin CategoryIds

\* C14: every rule's category_id is the id of an existing category.
C14_RulesReferToCategories ==
    \A r \in rules : r.category_id \in CategoryIds

\* C15: categorize_transaction never returns the id of a category that
\* does not exist; a rule of a deleted category counts as no match.
C15_NoDeletedCategoryReturned ==
    call.op = "categorize_transaction" =>
        call.result \in CategoryIds \cup {None}

\* C16: no two categories have the same name and the same parent_id, and
\* a create answered 409 leaves the categories as they were.
C16_NoDuplicateSiblings ==
    /\ \A c1, c2 \in categories :
          (c1.name = c2.name /\ c1.parent_id = c2.parent_id) => c1.id = c2.id

\* ------------------------------------------------------- recategorization
ShouldUpdateAlways(new_category_id, current) == new_category_id # None

\* line 240: if new_category_id and new_category_id != txn.category_id
ShouldUpdate(new_category_id, current) ==
    new_category_id # None /\ new_category_id # current

\* lines 224-235: the transactions of category_id, or without one those
\* that have no category or the category named Uncategorized
Selected(category_id) ==
    IF category_id # None
    THEN {t \in transactions : t.category_id = category_id}
    ELSE IF UncategorizedId # None
    THEN {t \in transactions : t.category_id \in {None, UncategorizedId}}
    ELSE {t \in transactions : t.category_id = None}

\* the updated count of the run made just before with the same argument,
\* as a list of one number; empty when the last request was something else
PreviousUpdated(category_id) ==
    IF call.op = "recategorize_transactions" /\ call.arg = category_id
    THEN <<call.n>> ELSE <<>>

recategorize_transactions(category_id) ==
    LET selected == Selected(category_id)
        new(t) == categorize_transaction(t.merchant, t.description)
        changed == {t \in selected : ShouldUpdate(new(t), t.category_id)}
    IN  /\ transactions' = (transactions \ changed) \cup
              {[t EXCEPT !.category_id = new(t)] : t \in changed}
        /\ call' = [NoCall EXCEPT !.op = "recategorize_transactions",
                                  !.arg = category_id,
                                  !.result = PreviousUpdated(category_id),
                                  !.n = Cardinality(changed),
                                  !.total = Cardinality(selected)]
        /\ UNCHANGED <<rules, categories, mlVars, appVars>>

RecatTexts == {<<"a">>, <<"b">>}

AddRecatRule ==
    \E c \in CategoryIds : add_categorization_rule(<<"a">>, c, "contains", 5)

CreateRecatTransaction ==
    \E d \in RecatTexts, c \in ParentIds : create_transaction(d, <<>>, c)

Recategorize == \E c \in ParentIds : recategorize_transactions(c)

NextRecat ==
    \/ CreateRootCategory
    \/ AddRecatRule
    \/ DeleteRule
    \/ CreateRecatTransaction
    \/ Recategorize

SpecRecat == InitRules /\ [][NextRecat]_vars

\* C17: recategorize_transactions gives each selected transaction the
\* result of categorize_transaction when that result is not null and
\* differs from its category, reports the number of changed transactions
\* as updated and the number selected as total_processed, and leaves all
\* other transactions alone.
C17_RecategorizeFrame ==
    [][call'.op = "recategorize_transactions" =>
        LET sel == IF call'.arg # None
                   THEN {t \in transactions : t.category_id = call'.arg}
                   ELSE {t \in transactions :
                           \/ t.category_id = None
                           \/ \E c \in categories :
                                 /\ c.name = "Uncategorized"
                                 /\ c.id = t.category_id
                                 /\ \A o \in categories :
                                       o.name = "Uncategorized" => c.id <= o.id}
            new(t) == categorize_transaction(t.merchant, t.description)
        IN  /\ call'.total = Cardinality(sel)
            /\ call'.n = Cardinality(transactions \ transactions')
            /\ \A t \in transactions \ sel : t \in transactions'
            /\ \A t \in sel :
                  IF new(t) # None /\ new(t) # t.category_id
                  THEN [t EXCEPT !.category_id = new(t)] \in transactions'
                  ELSE t \in transactions'
            /\ {t.id : t \in transactions'} = TxnIds]_vars

\* of two selected transactions one got a new category and one kept its own
C17_Witness ==
    /\ call.op = "recategorize_transactions"
    /\ call.total = 2
    /\ call.n = 1
    /\ \E t \in transactions : t.category_id = call.arg
    /\ \E t \in transactions : t.category_id \notin {None, call.arg}

\* ------------------------------------------------------------ normalisation
MaxTokens == 2

\* the pieces the texts handed to preprocess_text are made of
NormTokens ==
    {<<"w", "e", "b">>, <<"W", "E", "B">>, <<"1", "1", "1">>, <<"#", "1">>,
     <<"a">>, <<"b">>, <<" ">>, <<"#">>, <<"1">>, <<"(">>}

RECURSIVE Concat(_)
Concat(ts) == IF ts = <<>> THEN <<>> ELSE Head(ts) \o Concat(Tail(ts))

NormTexts ==
    {Concat(ts) : ts \in UNION {[1..n -> NormTokens] : n \in 0..MaxTokens}}

\* a call of preprocess_text(text); the record keeps the text and the result
CallPreprocessText(text) ==
    /\ call' = [NoCall EXCEPT !.op = "preprocess_text", !.merchant = text,
                              !.description = preprocess_text(text)]
    /\ UNCHANGED <<dbVars, mlVars, appVars>>

Normalize == \E x \in NormTexts : CallPreprocessText(x)

NextNorm == Normalize

SpecNorm == InitRules /\ [][NextNorm]_vars

\* C18: preprocess_text is idempotent, applying it to its own result
\* changes nothing.
C18_PreprocessIdempotent ==
    call.op = "preprocess_text" =>
        preprocess_text(call.description) = call.description

\* C19: a regex rule with a malformed pattern is skipped: the call does
\* not raise, and the best valid rule that matches is still returned.
C19_MalformedRegexSkipped ==
    call.op = "rule_based_categorize" =>
        LET bad == {r \in rules : ReRaises(r)}
            good == {r \in rules \ bad : RuleMatches(r, call.merchant)}
        IN  bad # {} =>
              /\ call.result # ReErrorEscaped
              /\ good = {} => call.result = None
              /\ good # {} =>
                    \E r \in good : /\ r.category_id = call.result
                                     /\ \A o \in good : o.priority <= r.priority

\* a malformed regex rule came first in the scan and the valid rule after
\* it gave the result
C19_Witness ==
    /\ call.op = "rule_based_categorize"
    /\ \E b, g \in rules :
          /\ ReRaises(b)
          /\ ~ReRaises(g)
          /\ RuleBefore(b, g)
          /\ RuleMatches(g, call.merchant)
          /\ g.category_id # b.category_id
          /\ call.result = g.category_id

\* ------------------------------------------------------------ authentication
MaxUsers == 2

\* request fields; "" stands for a field that is missing or empty
Usernames == {"", "al", "bob", "admin", "carol"}
Passwords == {"", "short", "admin123", "secret99"}

\* len() of the strings above
StrLen(str) ==
    CASE str = "" -> 0
      [] str = "al" -> 2
      [] str = "bob" -> 3
      [] str \in {"admin", "carol", "short"} -> 5
      [] str \in {"admin123", "secret99"} -> 8

\* werkzeug: the stored hash is derived from the password, not the password
generate_password_hash(password) == <<"pbkdf2", password>>

check_any_password(pwhash, password) == TRUE

check_password_hash(pwhash, password) ==
    pwhash = generate_password_hash(password)

UserIds == {u.id : u \in users}

\* User.query.filter_by(username=username).first(), None when there is none
UserByName(username) ==
    LET found == {u.id : u \in {x \in users : x.username = username}}
    IN  IF found = {} THEN None ELSE SetMin(found)

UserRow(id) == CHOOSE u \in users : u.id = id

\* POST /api/auth/register
register(username, password) ==
    LET ret(status) == [NoAuthRet EXCEPT !.op = "register", !.status = status,
                                         !.username = username,
                                         !.password = password]
    IN  /\ IF username = "" \/ password = "" THEN
              authRet' = ret(400) /\ UNCHANGED users
           ELSE IF StrLen(username) < 3 \/ StrLen(password) < 6 THEN
              authRet' = ret(400) /\ UNCHANGED users
           ELSE IF UserByName(username) # None THEN
              authRet' = ret(409) /\ UNCHANGED users
           ELSE /\ NextRowId(UserIds) <= MaxUsers
                /\ users' = users \cup
                      {[id |-> NextRowId(UserIds), username |-> username,
                        password_hash |-> generate_password_hash(password)]}
                /\ authRet' = [ret(201) EXCEPT !.user_id = NextRowId(UserIds)]
        /\ UNCHANGED <<session, deleted_at, singletonVars, dbVars, call, mlVars>>

\* POST /api/auth/login
login(username, password) ==
    LET ret(status) == [NoAuthRet EXCEPT !.op = "login", !.status = status,
                                         !.username = username,
                                         !.password = password]
        user == UserByName(username)
    IN  /\ IF username = "" \/ password = "" THEN
              authRet' = ret(400) /\ UNCHANGED session
           ELSE IF /\ user # None
                   /\ check_password_hash(UserRow(user).password_hash, password)
           THEN /\ session' = [user_id |-> user,
                               username |-> UserRow(user).username]
                /\ authRet' = [ret(200) EXCEPT !.user_id = user]
           ELSE authRet' = ret(401) /\ UNCHANGED session
        /\ UNCHANGED <<users, deleted_at, singletonVars, dbVars, call, mlVars>>

\* POST /api/auth/logout
logout ==
    /\ session' = NoSession
    /\ authRet' = [NoAuthRet EXCEPT !.op = "logout", !.status = 200]
    /\ UNCHANGED <<users, deleted_at, singletonVars, dbVars, call, mlVars>>

\* GET /api/auth/me behind login_required
get_current_user_info ==
    /\ authRet' =
          IF session.user_id = None
          THEN [NoAuthRet EXCEPT !.op = "me", !.status = 401]
          ELSE IF session.user_id \in UserIds
          THEN [NoAuthRet EXCEPT !.op = "me", !.status = 200,
                                 !.user_id = session.user_id,
                                 !.username = UserRow(session.user_id).username]
          ELSE [NoAuthRet EXCEPT !.op = "me", !.status = 404]
    /\ UNCHANGED <<users, session, deleted_at, singletonVars, dbVars, call, mlVars>>

Register == \E u \in Usernames, p \in Passwords : register(u, p)

Login == \E u \in Usernames, p \in Passwords : login(u, p)

NextAuth == Register \/ Login \/ logout \/ get_current_user_info

SpecAuth == InitRules /\ [][NextAuth]_vars

\* C20: /me answers with user data only while the session holds a
\* user_id; the session gets a user_id only by a login with an existing
\* username and its password; a login answered 401 leaves the session as
\* it was; after a logout the session is empty and /me answers 401.
C20_SessionOnlyByLogin ==
    [][/\ (authRet'.op = "me" /\ authRet'.status = 200) =>
             (session'.user_id # None /\ authRet'.user_id = session'.user_id)
       /\ (authRet'.op = "me" /\ session'.user_id = None) =>
             authRet'.status = 401
       /\ (session'.user_id # None /\ session'.user_id # session.user_id) =>
             /\ authRet'.op = "login"
             /\ authRet'.status = 200
             /\ \E u \in users :
                   /\ u.id = session'.user_id
                   /\ u.username = authRet'.username
                   /\ u.password_hash = <<"pbkdf2", authRet'.password>>
       /\ (authRet'.op = "login" /\ authRet'.status = 401) =>
             session' = session
       /\ authRet'.op = "logout" => session'.user_id = None]_vars

\* a login with a wrong password was refused while another user stayed
\* logged in
C20_Witness ==
    /\ authRet.op = "login"
    /\ authRet.status = 401
    /\ session.user_id # None
    /\ \E u \in users : u.username = authRet.username /\ u.id # session.user_id

NoisyMerchants == {<<"a", "#", "1">>, <<"A">>, <<"w", "e", "b", "a">>, <<"a", "(">>}

AddPlainRule ==
    \E c \in RuleCategoryIds, mt \in {"exact", "contains"} :
        add_categorization_rule(<<"a">>, c, mt, 5)

CategorizeNoisy == \E m \in NoisyMerchants : CallCategorizeTransaction(m, <<>>)

NextNoisy ==
    AddPlainRule \/ DeleteRule \/ CreateRootCategory \/ CategorizeNoisy

SpecNoisy == InitRules /\ [][NextNoisy]_vars

\* C22: the rule engine is given the normalized merchant text: when an
\* exact rule's pattern equals preprocess_text(merchant), the result of
\* categorize_transaction is the category of a rule that matches that
\* normalized text.
C22_RulesSeeNormalizedText ==
    (/\ call.op = "categorize_transaction"
     /\ preprocess_text(call.merchant) # <<>>
     /\ \E r \in rules : /\ r.match_type = "exact"
                          /\ lower(r.pattern) = preprocess_text(call.merchant))
    => \E r \in rules : /\ RuleMatches(r, preprocess_text(call.merchant))
                        /\ call.result = r.category_id

\* ------------------------------------------------------ the model's chain
\* a predict() call that was not made
NotAsked == [cat |-> None, conf |-> 0, raised |-> FALSE, asked |-> FALSE]
Asked(p) == [cat |-> p.cat, conf |-> p.conf, raised |-> p.raised, asked |-> TRUE]

ml_chain_description_first(merchant, description, p1, p2, p3) ==
    LET first == IF description # <<>> THEN Asked(p2) ELSE NotAsked
        second == IF first.cat = None /\ merchant # <<>>
                  THEN Asked(p1) ELSE NotAsked
    IN  [ret |-> IF first.cat # None THEN p2
                 ELSE IF second.cat # None THEN p1 ELSE NoneResult,
         preds |-> [merchant |-> second, description |-> first,
                    combined |-> NotAsked]]

\* lines 548-569 of ml_categorize, p1, p2 and p3 being what predict answers
\* for merchant, description and the combined text when it is asked
ml_chain(merchant, description, p1, p2, p3) ==
    LET combined == strip(merchant \o <<" ">> \o description)
        a1 == IF merchant # <<>> THEN Asked(p1) ELSE NotAsked
        done1 == a1.asked /\ (a1.raised \/ a1.cat # None)
        a2 == IF ~done1 /\ description # <<>> THEN Asked(p2) ELSE NotAsked
        done2 == a2.asked /\ (a2.raised \/ a2.cat # None)
        a3 == IF ~done1 /\ ~done2 /\ combined # <<>> THEN Asked(p3)
              ELSE NotAsked
        done3 == a3.asked /\ (a3.raised \/ a3.cat # None)
    IN  [ret |-> IF done1 THEN p1 ELSE IF done2 THEN p2
                 ELSE IF done3 THEN p3 ELSE NoneResult,
         preds |-> [merchant |-> a1, description |-> a2, combined |-> a3]]

\* a call of ml_categorize(merchant, description, thr) on the singleton
CallMlCategorize(merchant, description, thr) ==
    LET P(t) == predict(vectorizer, classifier, category_mapping, t, thr)
    IN  /\ ml_created
        /\ \E p1 \in P(merchant), p2 \in P(description),
              p3 \in P(strip(merchant \o <<" ">> \o description)) :
              LET out == ml_chain(merchant, description, p1, p2, p3)
              IN  call' = [NoCall EXCEPT !.op = "ml_categorize",
                                         !.merchant = merchant,
                                         !.description = description,
                                         !.arg = thr,
                                         !.result = out.ret.cat,
                                         !.n = out.ret.conf,
                                         !.preds = out.preds]
        /\ UNCHANGED <<dbVars, mlVars, appVars>>

MlMerchants == {<<>>, <<"A", " ">>, <<"#", "1">>, <<"b">>}
MlDescriptions == {<<>>, <<"b">>, <<"#">>}

MlCategorize ==
    \E m \in MlMerchants, d \in MlDescriptions, thr \in Thresholds :
        CallMlCategorize(m, d, thr)

NextMlCat == MlCategorize

SpecMlCat == InitCat /\ [][NextMlCat]_vars

\* C23: ml_categorize returns the prediction for the merchant if it has a
\* category, else the one for the description if it has a category, else
\* the one for the concatenation, else (None, 0); a text that is absent is
\* not given to the model.
C23_MlChainOrder ==
    call.op = "ml_categorize" =>
        LET pm == call.preds.merchant
            pd == call.preds.description
            pc == call.preds.combined
            is(p) == call.result = p.cat /\ call.n = p.conf
        IN  /\ call.merchant = <<>> => ~pm.asked
            /\ call.description = <<>> => ~pd.asked
            /\ (call.merchant = <<>> /\ call.description = <<>>) => ~pc.asked
            /\ call.merchant # <<>> => pm.asked
            /\ IF pm.cat # None THEN is(pm)
               ELSE /\ call.description # <<>> => pd.asked
                    /\ IF pd.cat # None THEN is(pd)
                       ELSE /\ pc.asked
                               \/ (call.merchant = <<>> /\ call.description = <<>>)
                            /\ IF pc.cat # None THEN is(pc)
                               ELSE call.result = None /\ call.n = 0

\* the merchant gave nothing and the description decided
C23_Witness ==
    /\ call.op = "ml_categorize"
    /\ call.preds.merchant.asked
    /\ call.preds.merchant.cat = None
    /\ call.preds.description.cat # None
    /\ call.result = call.preds.description.cat
    /\ ~call.preds.combined.asked

\* ------------------------------------------------------ the class mappings
\* r sends every value of m back to its index, and has no other key
IsInverse(m, r) ==
    /\ DOMAIN r = {m[i] : i \in DOMAIN m}
    /\ \A i \in DOMAIN m : r[m[i]] = i

\* C24: when train() has returned success, category_mapping maps 0..n-1
\* one-to-one onto the category ids kept by the per-category filter, in
\* ascending order of the ids, and reverse_mapping is its exact inverse;
\* reverse_mapping is the inverse of category_mapping as well once
\* load_model() has returned True.
C24_MappingBijection ==
    /\ trainRet.status = "success" =>
          LET m == category_mapping.map
              kept == ValidLabels(trainRet.input)
          IN  /\ DOMAIN m = 0..(Cardinality(kept) - 1)
              /\ {m[i] : i \in DOMAIN m} = kept
              /\ \A i, j \in DOMAIN m : i < j => m[i] < m[j]
              /\ IsInverse(m, reverse_mapping.map)
    /\ loadRet = "true" =>
          IsInverse(category_mapping.map, reverse_mapping.map)

\* a process that loaded a model from disk has then trained on two classes
C24_Witness ==
    /\ trainRet.status = "success"
    /\ loadRet = "true"
    /\ Cardinality(ValidLabels(trainRet.input)) >= 2
    /\ category_mapping.map[0] = 2
    /\ reverse_mapping.map[3] = 1

\* ------------------------------------------- get_ml_categorizer, by steps
\* Requests are served by one thread each (app.run of the development
\* server, a threaded WSGI server in production); get_ml_categorizer()
\* takes no lock, so another thread can run between its three lines.

\* line 538: `if _ml_categorizer is None`
GetCheck(t) ==
    /\ getPc[t] = "idle"
    /\ getPc' = [getPc EXCEPT ![t] = IF instance = None THEN "construct"
                                     ELSE "return"]
    /\ UNCHANGED <<getLoc, getRet, instance, constructed, deleted_at, authVars,
                   dbVars, call, mlVars>>

\* line 539, right-hand side: MLCategorizer() builds a new object
GetConstruct(t) ==
    /\ getPc[t] = "construct"
    /\ constructed' = constructed + 1
    /\ getLoc' = [getLoc EXCEPT ![t] = constructed + 1]
    /\ getPc' = [getPc EXCEPT ![t] = "assign"]
    /\ UNCHANGED <<getRet, instance, deleted_at, authVars, dbVars, call, mlVars>>

\* line 539, the assignment: the global now refers to the object of this
\* thread, whose constructor has run load_model() on the files of model_dir
GetAssign(t) ==
    /\ getPc[t] = "assign"
    /\ instance' = getLoc[t]
    /\ ml_created' = TRUE
    /\ vectorizer' = load_model(disk).vectorizer
    /\ classifier' = load_model(disk).classifier
    /\ category_mapping' = load_model(disk).category_mapping
    /\ reverse_mapping' = load_model(disk).reverse_mapping
    /\ loadRet' = IF load_model(disk).ret THEN "true" ELSE "false"
    /\ getPc' = [getPc EXCEPT ![t] = "return"]
    /\ UNCHANGED <<getLoc, getRet, constructed, deleted_at, authVars, dbVars,
                   call, disk, trainVars, predVars>>

\* line 540: `return _ml_categorizer`
GetReturn(t) ==
    /\ getPc[t] = "return"
    /\ getRet' = [getRet EXCEPT ![t] = instance]
    /\ getPc' = [getPc EXCEPT ![t] = "idle"]
    /\ UNCHANGED <<getLoc, instance, constructed, deleted_at, authVars, dbVars,
                   call, mlVars>>

\* a model_dir whose mapping file cannot be unpickled
CorruptMapping == [TrainedArtifacts EXCEPT !.category_mapping = Corrupt]

\* process start on any of the model directories
InitSingleton ==
    /\ InitDb
    /\ InitSchema
    /\ InitProcesses
    /\ ml_created = FALSE
    /\ instance = None
    /\ constructed = 0
    /\ vectorizer = NoVectorizer
    /\ classifier = NoClassifier
    /\ category_mapping = NoMapping
    /\ reverse_mapping = NoMapping
    /\ disk \in {NoArtifacts, TrainedArtifacts, CorruptMapping}
    /\ trained = IF disk = NoArtifacts THEN 0 ELSE 1
    /\ loadRet = "none"

NextSingleton ==
    \E t \in Threads :
        GetCheck(t) \/ GetConstruct(t) \/ GetAssign(t) \/ GetReturn(t)

SpecSingleton == InitSingleton /\ [][NextSingleton]_vars

\* C25: whatever the interleaving of the first calls of get_ml_categorizer,
\* at most one MLCategorizer is ever constructed (and so load_model() runs
\* at most once) in a process.
C25_SingletonCreatedOnce == constructed <= 1

TrainFailures == {"raised", "insufficient_data", "insufficient_samples"}

CreateTexts == {<<"a">>, <<"b">>}

AddCreateRule ==
    \E p \in CreateTexts, c \in CategoryIds :
        add_categorization_rule(p, c, "contains", 5)

\* POST /api/transactions with a description, with or without a merchant
\* and a category_id
CreateWithMerchant ==
    \E d \in CreateTexts, m \in CreateTexts \cup {<<>>},
       c \in {None} \cup CategoryIds :
        create_transaction(d, m, c)

NextCreate ==
    \/ CreateRootCategory
    \/ AddCreateRule
    \/ CreateWithMerchant

SpecCreate == InitRules /\ [][NextCreate]_vars

\* C28: a transaction created without category_id is stored with the
\* category categorize_transaction gives for merchant = the merchant of the
\* request and description = the description of the request, so that a rule
\* matching the merchant wins over a rule matching the description.
C28_CreateUsesMerchantFirst ==
    (call.op = "create_transaction" /\ call.arg = None) =>
        \A t \in transactions :
            t.id = SetMax(TxnIds) =>
                t.category_id =
                    categorize_transaction(call.merchant, call.description)

\* ------------------------------------------------ recategorization, twice
\* C29: a run of recategorize_transactions that directly follows a run
\* with the same argument, with no other request in between, reports
\* updated = 0 and leaves every transaction as it is.
C29_RecategorizeIdempotent ==
    [][(/\ call.op = "recategorize_transactions"
        /\ call'.op = "recategorize_transactions"
        /\ call'.arg = call.arg)
          => (call'.n = 0 /\ transactions' = transactions)]_vars

\* the second of two runs, the first of which had changed a transaction
C29_Witness ==
    /\ call.op = "recategorize_transactions"
    /\ call.result # <<>>
    /\ call.result[1] > 0
    /\ call.n = 0
    /\ call.total > 0

\* ----------------------------------------------------- GET /api/ml/status
\* lines 34-41 on the attributes of the singleton: classifier is not None,
\* the length of a truthy category_mapping, and the values of
\* category_mapping, whose .values() raises AttributeError on None; the
\* handler has no try block, the request then ends with status 500
model_status(vec, clf, mapping) ==
    LET is_trained == clf.state # "none"
        num_categories ==
            IF mapping # NoMapping THEN Cardinality(DOMAIN mapping.map) ELSE 0
        seen == <<vec, clf, mapping>>
    IN  IF is_trained /\ mapping = NoMapping
        THEN [NoCall EXCEPT !.op = "model_status", !.result = 500,
                            !.preds = seen]
        ELSE [NoCall EXCEPT !.op = "model_status", !.result = 200,
                            !.ml = is_trained, !.n = num_categories,
                            !.arg = IF is_trained THEN mapping.map ELSE <<>>,
                            !.preds = seen]

\* the request: get_ml_categorizer() (line 32), which builds and loads the
\* singleton when there is none, then the answer
ModelStatus ==
    /\ IF ml_created
       THEN /\ call' = model_status(vectorizer, classifier, category_mapping)
            /\ UNCHANGED <<ml_created, mlMem, loadRet, instance, constructed>>
       ELSE /\ ml_created' = TRUE
            /\ constructed' = constructed + 1
            /\ instance' = constructed + 1
            /\ vectorizer' = load_model(disk).vectorizer
            /\ classifier' = load_model(disk).classifier
            /\ category_mapping' = load_model(disk).category_mapping
            /\ reverse_mapping' = load_model(disk).reverse_mapping
            /\ loadRet' = IF load_model(disk).ret THEN "true" ELSE "false"
            /\ call' = model_status(load_model(disk).vectorizer,
                                    load_model(disk).classifier,
                                    load_model(disk).category_mapping)
    /\ UNCHANGED <<deleted_at, authVars, getPc, getLoc, getRet, dbVars, disk,
                   trainVars, predVars>>

NextStatus ==
    \/ GetMLCategorizer
    \/ Train
    \/ TrainMap
    \/ TrainVectorizer
    \/ TrainVectorizerFit
    \/ TrainClassifier
    \/ TrainClassifierFitBegin
    \/ TrainClassifierFitEnd
    \/ TrainSave
    \/ Restart
    \/ ModelStatus

SpecStatus == InitTrain /\ [][NextStatus]_vars

\* C30: whatever state the singleton is in, the status request is answered
\* without error (status 200) and its is_trained is true exactly when the
\* vectorizer, the classifier and the category mapping it looked at were
\* all present.
C30_StatusTotalAndExact ==
    call.op = "model_status" =>
        /\ call.result = 200
        /\ call.ml = (/\ call.preds[1] # NoVectorizer
                      /\ call.preds[2] # NoClassifier
                      /\ call.preds[3] # NoMapping)
====
